---- MODULE Spec2Model ----
(***************************************************************************)
(* Model of the LLM Council web client: the streaming API client           *)
(* (api.sendMessageStream) and the App component that drives the three     *)
(* council stages from the events the stream dispatches.                   *)
(*                                                                         *)
(* Text is modelled as TLA+ strings, so startsWith, slice, split and       *)
(* includes are computed character by character as the JavaScript does.    *)
(* JavaScript values are tagged records (kind = undefined, null, string,   *)
(* object).                                                                *)
(***************************************************************************)
EXTENDS Naturals, Sequences, FiniteSets, TLC

(***************************************************************************)
(* Bounds of the model.                                                    *)
(***************************************************************************)
\* frames the backend writes into one response body (stream specification)
MaxFrames == 2
\* reads in which the transport delivers one response body (stream specification)
MaxChunks == 2
\* messages the user sends (application specification)
MaxTurns == 2
\* chunks one response delivers to the application (application specification)
MaxReads == 2
\* conversations the backend comes to hold (application specification)
MaxConvs == 2
\* authenticated requests the client issues besides the verification of the
\* persisted token (session specification)
MaxRequests == 2

(***************************************************************************)
(* JavaScript values.                                                      *)
(***************************************************************************)
Undefined == [kind |-> "undefined"]
Null == [kind |-> "null"]
Str(s) == [kind |-> "string", text |-> s]
Num(n) == [kind |-> "number", num |-> n]
Obj(f) == [kind |-> "object", fields |-> f]

\* v.name: a property read. Reading a property of null or undefined throws a
\* TypeError, which the callers test with IsNullish before they read.
IsNullish(v) == v.kind \in {"undefined", "null"}
Prop(v, name) ==
  IF v.kind = "object" /\ name \in DOMAIN v.fields THEN v.fields[name] ELSE Undefined

\* v?.name: optional chaining
OptProp(v, name) == IF IsNullish(v) THEN Undefined ELSE Prop(v, name)

\* the truthiness of a value (undefined, null and the empty string are falsy)
Truthy(v) == ~IsNullish(v) /\ ~(v.kind = "string" /\ v.text = "")

(***************************************************************************)
(* String operations of the JavaScript standard library.                   *)
(***************************************************************************)
\* s.startsWith(p)
StartsWith(s, p) == Len(s) >= Len(p) /\ SubSeq(s, 1, Len(p)) = p

\* s.slice(n)
Slice(s, n) == SubSeq(s, n + 1, Len(s))

\* s.includes(sub)
Includes(s, sub) ==
  \E i \in 1..(Len(s) + 1) :
    i + Len(sub) - 1 <= Len(s) /\ SubSeq(s, i, i + Len(sub) - 1) = sub

\* s.trim(): s without its leading and trailing white space
RECURSIVE Trim(_)
Trim(s) ==
  IF s = "" THEN s
  ELSE IF SubSeq(s, 1, 1) \in {" ", "\n"} THEN Trim(SubSeq(s, 2, Len(s)))
  ELSE IF SubSeq(s, Len(s), Len(s)) \in {" ", "\n"} THEN Trim(SubSeq(s, 1, Len(s) - 1))
  ELSE s

\* s.split('\n'): the pieces between newlines; n newlines give n + 1 pieces.
\* SplitAt(s, from, nl) splits the part of s that starts at from, nl being the
\* positions of the newlines of s that are not before from.
RECURSIVE SplitAt(_, _, _)
SplitAt(s, from, nl) ==
  IF nl = {} THEN <<SubSeq(s, from, Len(s))>>
  ELSE LET i == CHOOSE j \in nl : \A k \in nl : j <= k IN
         <<SubSeq(s, from, i - 1)>> \o SplitAt(s, i + 1, nl \ {i})

Split(s) == SplitAt(s, 1, {i \in 1..Len(s) : SubSeq(s, i, i) = "\n"})

(***************************************************************************)
(* JSON.parse over the payload texts of the model.  A text that is not     *)
(* one of them (a truncated payload, the tail of a cut frame, the          *)
(* sentinel) is not valid JSON here: every proper prefix and suffix of     *)
(* the texts below is rejected by a real parser as well.                   *)
(***************************************************************************)
Stage1Text == "{\"type\":\"stage1_complete\",\"data\":\"a\"}"
Stage2Text == "{\"type\":\"stage2_complete\",\"data\":\"b\",\"metadata\":\"m\"}"
Stage3Text == "{\"type\":\"stage3_complete\",\"data\":\"c\"}"
TitleText == "{\"type\":\"title_complete\",\"data\":{\"title\":\"t\"}}"
TitleUpdateText == "{\"type\":\"title_update\",\"title\":\"t\"}"
CompleteText == "{\"type\":\"complete\"}"
ErrorText == "{\"type\":\"error\",\"message\":\"busy\"}"
ErrorJSONText == "{\"type\":\"error\",\"message\":\"bad JSON\"}"
ErrorBareText == "{\"type\":\"error\"}"
PingText == "{\"type\":\"ping\"}"
MalformedText == "{\"type\""
DoneText == "[DONE]"
NullText == "null"
NumberText == "5"
StringText == "\"s\""

JsonTable ==
  [t \in {Stage1Text, Stage2Text, Stage3Text, TitleText, TitleUpdateText, CompleteText,
          ErrorText, ErrorJSONText, ErrorBareText, PingText, NullText, NumberText,
          StringText} |->
    CASE t = Stage1Text -> Obj([type |-> Str("stage1_complete"), data |-> Str("a")])
      [] t = Stage2Text -> Obj([type |-> Str("stage2_complete"), data |-> Str("b"),
                                metadata |-> Str("m")])
      [] t = Stage3Text -> Obj([type |-> Str("stage3_complete"), data |-> Str("c")])
      [] t = TitleText -> Obj([type |-> Str("title_complete"),
                               data |-> Obj([title |-> Str("t")])])
      [] t = TitleUpdateText -> Obj([type |-> Str("title_update"), title |-> Str("t")])
      [] t = CompleteText -> Obj([type |-> Str("complete")])
      [] t = ErrorText -> Obj([type |-> Str("error"), message |-> Str("busy")])
      [] t = ErrorJSONText -> Obj([type |-> Str("error"), message |-> Str("bad JSON")])
      [] t = ErrorBareText -> Obj([type |-> Str("error")])
      [] t = PingText -> Obj([type |-> Str("ping")])
      [] t = NullText -> Null
      [] t = NumberText -> Num(5)
      [] t = StringText -> Str("s")]

IsJson(text) == text \in DOMAIN JsonTable

\* the message of the SyntaxError JSON.parse throws (V8's wording; the messages
\* of SpiderMonkey and JavaScriptCore name JSON as well)
SyntaxErrorMessage == "Unexpected end of JSON input"

\* the message of the TypeError a property read of null throws
TypeErrorMessage == "Cannot read properties of null (reading 'type')"

(***************************************************************************)
(* api.sendMessageStream: what one line of a chunk does.                   *)
(* A step is [ctl, calls, message]: ctl = "next" (go on with the next      *)
(* line), "return" (the function returns) or "throw" (it throws message);  *)
(* calls are the handler calls made, in order.                             *)
(***************************************************************************)
Call(handler, args) == [handler |-> handler, args |-> args]
Go(calls) == [ctl |-> "next", calls |-> calls, message |-> ""]
Return == [ctl |-> "return", calls |-> <<>>, message |-> ""]
Throw(m) == [ctl |-> "throw", calls |-> <<>>, message |-> m]

\* case 'complete': the function returns
OnCompleteBreaks == Go(<<>>)
OnComplete == Return

\* the switch has no default clause: a type without a case runs nothing
NoCaseThrows == Throw("Unknown event type")
NoCase == Go(<<>>)

\* the body of the try block: JSON.parse and the switch on parsed.type
TryBody(data) ==
  IF ~IsJson(data) THEN Throw(SyntaxErrorMessage)
  ELSE LET parsed == JsonTable[data] IN
    IF IsNullish(parsed) THEN Throw(TypeErrorMessage)
    ELSE LET type == Prop(parsed, "type") IN
      CASE type = Str("stage1_complete") ->
             Go(<<Call("onStage1", <<Prop(parsed, "data")>>)>>)
        [] type = Str("stage2_complete") ->
             Go(<<Call("onStage2", <<Prop(parsed, "data"), Prop(parsed, "metadata")>>)>>)
        [] type = Str("stage3_complete") ->
             Go(<<Call("onStage3", <<Prop(parsed, "data")>>)>>)
        [] type = Str("title_complete") ->
             Go(<<Call("onTitleUpdate", <<OptProp(Prop(parsed, "data"), "title")>>)>>)
        [] type = Str("complete") -> OnComplete
        [] type = Str("error") ->
             Throw(IF Truthy(Prop(parsed, "message"))
                   THEN Prop(parsed, "message").text ELSE "Unknown error")
        [] OTHER -> NoCase

\* the catch clause: an error whose message names JSON is logged and the loop
\* goes on, any other error is thrown again
CatchRethrowsAll(message) == TRUE
CatchRethrows(message) == message # "" /\ ~Includes(message, "JSON")

TryCatch(data) ==
  LET r == TryBody(data) IN
    IF r.ctl = "throw" /\ ~CatchRethrows(r.message) THEN Go(<<>>) ELSE r

\* one iteration of the for loop over the lines of a chunk
ProcessLine(line) ==
  IF StartsWith(line, "data: ")
  THEN LET data == Slice(line, 6) IN
         IF data = DoneText THEN Return ELSE TryCatch(data)
  ELSE Go(<<>>)

\* the for loop: the lines in order, until one returns or throws
RECURSIVE ProcessLines(_, _)
ProcessLines(lines, calls) ==
  IF lines = <<>> THEN Go(calls)
  ELSE LET r == ProcessLine(Head(lines)) IN
         IF r.ctl = "next" THEN ProcessLines(Tail(lines), calls \o r.calls)
         ELSE [r EXCEPT !.calls = calls]

\* the lines the loop runs over: the decoded chunk alone, split on "\n"
ChunkLinesFirstOnly(chunk) == <<Head(Split(chunk))>>
ChunkLines(chunk) == Split(chunk)

\* one pass of the while loop for a chunk that reader.read() returned
ProcessChunk(chunk) == ProcessLines(ChunkLines(chunk), <<>>)

(***************************************************************************)
(* The backend's side of the stream: frames, one per line.                 *)
(***************************************************************************)
Payloads ==
  {Stage1Text, Stage2Text, Stage3Text, TitleText, TitleUpdateText, CompleteText,
   ErrorText, ErrorJSONText, ErrorBareText, PingText, MalformedText, DoneText}

EncodeFrame(payload) == "data: " \o payload \o "\n"

RECURSIVE EncodeFrames(_)
EncodeFrames(ps) ==
  IF ps = <<>> THEN "" ELSE EncodeFrame(Head(ps)) \o EncodeFrames(Tail(ps))

\* the payloads of the bodies that are cut at any offset
CutPayloads == {Stage1Text, CompleteText, ErrorText, MalformedText, DoneText}

FrameSeqs(payloads) == UNION {[1..n -> payloads] : n \in 1..MaxFrames}

(***************************************************************************)
(* State.                                                                  *)
(***************************************************************************)
VARIABLES
  sent,      \* stream: the frames of the response body, as the backend wrote them
  body,      \* stream: the part of the encoded body the transport has not delivered
  nreads,    \* stream: the chunks reader.read() has returned
  calls,     \* stream: the handler calls sendMessageStream has made, in order
  outcome,   \* stream: "pending", "resolved" or "rejected"
  thrown,    \* stream: the message of the error it rejected with
  response,  \* stream: the response of its fetch: "none" while the fetch is
             \*         awaited, then "ok" or "notok" (response.ok)
  currentConversation,  \* App: null or the conversation shown, [id, title]
  messages,             \* App: the messages shown
  input,                \* App: the text of the input box
  loading,              \* App: a turn is in flight
  stage1Results,        \* App: the stage buffers
  stage2Results,
  stage3Result,
  metadata,
  currentStage,         \* App: null, 1, 2 or 3
  streams,     \* App: the open calls of api.sendMessageStream, with what their
               \*      handlers captured when sendMessage ran
  pendingGet,  \* App: the conversations with an api.getConversation in flight
  selected,    \* user: the conversation of the last click in the sidebar, where
               \*       the specification records it; 0 before any
  pendingCreate,  \* App: an api.createConversation is in flight
  lastSend,    \* App: what sendMessage did last: "none" (never invoked),
               \*      "returned" (its guard returned at once), "opened" (it
               \*      awaits api.sendMessageStream), "resolved" or "rejected"
               \*      (the await returned or threw)
  lastAlert,   \* App: the text window.alert has shown in the last turn, or ""
  nconvs,      \* backend: the conversations it holds, 1..nconvs
  turns,       \* the messages the user has sent
  persisted,   \* auth: localStorage's item 'token': null or a string
  authToken,   \* auth: the module variable authToken of the API client
  user,        \* auth: AuthProvider's user
  authLoading, \* auth: AuthProvider's loading
  restore,     \* auth: the mount effect: "mounting" (not run yet), "pending"
               \*       (verifying the persisted token), or how it ended:
               \*       "absent" (no token), "verified" or "discarded"
  submitting,  \* auth: the call in flight: "none", "login" or "register"
  authResult,  \* auth: what the last login / register call returned or threw
  lastResponse,  \* backend: the response to the last credential exchange
  lastRequest, \* auth: the last authenticated request the client issued
  nrequests,   \* auth: the authenticated requests the client has issued
  pdfData,     \* App: the staged attachment's base64 text, or null
  pdfFilename, \* App: the staged attachment's file name, or null
  uploadingPdf,  \* App: an upload is in flight
  pendingUpload  \* backend: the name of the file being uploaded, or null

streamVars == <<sent, body, nreads, calls, outcome, thrown, response>>
stageVars == <<stage1Results, stage2Results, stage3Result, metadata, currentStage>>
convVars == <<currentConversation, messages>>
requestVars == <<pendingGet, selected, pendingCreate, nconvs>>
alerts == <<lastSend, lastAlert>>
sessionVars == <<persisted, authToken, user>>
authVars == <<sessionVars, authLoading, restore, submitting, authResult, lastResponse,
              lastRequest, nrequests>>
pdfVars == <<pdfData, pdfFilename, uploadingPdf, pendingUpload>>
appVars ==
  <<convVars, input, loading, stageVars, streams, requestVars, alerts, turns, pdfVars>>
vars == <<streamVars, appVars, authVars>>

\* the App component after its first render: every useState at its initial value
AppInit ==
  /\ currentConversation = Null
  /\ messages = <<>>
  /\ input = ""
  /\ loading = FALSE
  /\ stage1Results = Null
  /\ stage2Results = Null
  /\ stage3Result = Null
  /\ metadata = Null
  /\ currentStage = Null
  /\ streams = <<>>
  /\ pendingGet = {}
  /\ selected = 0
  /\ pendingCreate = FALSE
  /\ lastSend = "none"
  /\ lastAlert = ""
  /\ nconvs = 1
  /\ turns = 0
  /\ pdfData = Null
  /\ pdfFilename = Null
  /\ uploadingPdf = FALSE
  /\ pendingUpload = Null

\* no call of api.sendMessageStream under study
CallIdle ==
  /\ sent = <<>>
  /\ body = ""
  /\ nreads = 0
  /\ calls = <<>>
  /\ outcome = "resolved"
  /\ thrown = ""
  /\ response = "none"

\* the session of a user who is logged in: restored, and no call in flight
AuthIdle ==
  /\ persisted = Str("t0")
  /\ authToken = Str("t0")
  /\ user = Str("u0")
  /\ authLoading = FALSE
  /\ restore = "verified"
  /\ submitting = "none"
  /\ authResult = [kind |-> "none"]
  /\ lastResponse = Null
  /\ lastRequest = Null
  /\ nrequests = 0

(***************************************************************************)
(* The stream specification: one call of api.sendMessageStream on a        *)
(* response whose body the transport cuts into chunks at any offsets.      *)
(***************************************************************************)
\* the call awaits its fetch
FetchInit ==
  /\ body = EncodeFrames(sent)
  /\ nreads = 0
  /\ calls = <<>>
  /\ outcome = "pending"
  /\ thrown = ""
  /\ response = "none"

\* the call after its fetch resolved with a success status: it reads the body
CallInit ==
  /\ body = EncodeFrames(sent)
  /\ nreads = 0
  /\ calls = <<>>
  /\ outcome = "pending"
  /\ thrown = ""
  /\ response = "ok"

StreamInit == sent \in FrameSeqs(CutPayloads) /\ CallInit /\ AppInit /\ AuthIdle

\* reader.read() returns the next n characters of the body
ReadChunk(n) ==
  /\ outcome = "pending"
  /\ response # "none"
  /\ n \in 1..Len(body)
  /\ nreads < MaxChunks
  /\ nreads + 1 = MaxChunks => n = Len(body)
  /\ \E r \in {ProcessChunk(SubSeq(body, 1, n))} :
       /\ calls' = calls \o r.calls
       /\ outcome' = CASE r.ctl = "return" -> "resolved"
                       [] r.ctl = "throw" -> "rejected"
                       [] OTHER -> "pending"
       /\ thrown' = r.message
  /\ body' = Slice(body, n)
  /\ nreads' = nreads + 1
  /\ UNCHANGED <<sent, response, appVars, authVars>>

\* reader.read() returns done: the while loop breaks and the call resolves
ReadDone ==
  /\ outcome = "pending"
  /\ response # "none"
  /\ body = ""
  /\ outcome' = "resolved"
  /\ UNCHANGED <<sent, body, nreads, calls, thrown, response, appVars, authVars>>

StreamNext ==
  \/ \E n \in 1..Len(body) : ReadChunk(n)
  \/ ReadDone

SpecStream == StreamInit /\ [][StreamNext]_vars

(***************************************************************************)
(* The same call when the transport happens to cut the body only at the    *)
(* ends of lines: every chunk holds whole frames.                          *)
(***************************************************************************)
ReadAligned(n) == SubSeq(body, n, n) = "\n" /\ ReadChunk(n)

AlignedNext ==
  \/ \E n \in 1..Len(body) : ReadAligned(n)
  \/ ReadDone

AlignedInit == sent \in FrameSeqs(Payloads) /\ CallInit /\ AppInit /\ AuthIdle

SpecAligned == AlignedInit /\ [][AlignedNext]_vars

(***************************************************************************)
(* The same call from its fetch on: the response arrives with a success    *)
(* status or without one, and the body is read after the status check.     *)
(***************************************************************************)
\* if (!response.ok) throw new Error('Failed to send message')
StatusCheckPasses(ok) == Go(<<>>)
StatusCheck(ok) == IF ok THEN Go(<<>>) ELSE Throw("Failed to send message")

\* the await of fetch returns a response whose ok is the given one
ResponseArrives(ok) ==
  /\ outcome = "pending"
  /\ response = "none"
  /\ response' = IF ok THEN "ok" ELSE "notok"
  /\ \E r \in {StatusCheck(ok)} :
       /\ outcome' = IF r.ctl = "throw" THEN "rejected" ELSE "pending"
       /\ thrown' = r.message
  /\ UNCHANGED <<sent, body, nreads, calls, appVars, authVars>>

ResponseInit == sent \in FrameSeqs(Payloads) /\ FetchInit /\ AppInit /\ AuthIdle

ResponseNext ==
  \/ \E ok \in BOOLEAN : ResponseArrives(ok)
  \/ \E n \in 1..Len(body) : ReadAligned(n)
  \/ ReadDone

SpecResponse == ResponseInit /\ [][ResponseNext]_vars

(***************************************************************************)
(* The App component.  Every handler runs to its next await in one step;   *)
(* the state updates it makes are batched into the next render.            *)
(***************************************************************************)
\* the texts the user types
Inputs == {"", " ", "hi"}

\* what the backend answers to api.getConversation(c): a conversation without
\* messages yet, or one with a stored turn
NewTitle == Str("New Conversation")
StoredMessages ==
  <<[role |-> "user", content |-> "earlier"],
    [role |-> "assistant", stage1 |-> Str("a"), stage2 |-> Str("b"),
     stage3 |-> Str("c"), metadata |-> Str("m")]>>
GetResponses(c) ==
  {[id |-> c, title |-> NewTitle, messages |-> <<>>],
   [id |-> c, title |-> Str("t"), messages |-> StoredMessages]}

\* the chunks a response delivers to the application: one frame each, or a
\* final stage frame together with the completion frame
AppPayloads ==
  {Stage1Text, Stage2Text, Stage3Text, TitleText, CompleteText, ErrorText, DoneText}
AppChunks ==
  {EncodeFrame(p) : p \in AppPayloads} \cup {EncodeFrames(<<Stage3Text, CompleteText>>)}

\* the message of the error a failed fetch or a failed read rejects with
NetworkErrorMessage == "network error"

Remove(seq, i) == SubSeq(seq, 1, i - 1) \o SubSeq(seq, i + 1, Len(seq))

\* resetCouncilState
ResetCouncilState ==
  /\ stage1Results' = Null
  /\ stage2Results' = Null
  /\ stage3Result' = Null
  /\ metadata' = Null
  /\ currentStage' = Null

\* clearPdfState
ClearPdfState ==
  /\ pdfData' = Null
  /\ pdfFilename' = Null

\* the content of the user's message as it is shown: the trimmed input, and
\* the name of the attachment when one is staged (the page icon before
\* "Attached" is left out)
DisplayContent ==
  IF Truthy(pdfFilename)
  THEN Trim(input) \o "\n\nAttached: " \o pdfFilename.text
  ELSE Trim(input)

\* the onChange of the text area, which is disabled while loading and is
\* rendered only when a conversation is shown
SetInput(v) ==
  /\ ~loading
  /\ currentConversation # Null
  /\ input # v
  /\ input' = v
  /\ UNCHANGED <<convVars, loading, stageVars, streams, requestVars, alerts, turns,
                 streamVars, authVars, pdfVars>>

\* createNewConversation, up to its await. (A request made while the same
\* request is in flight is not told apart from one made after it returned: the
\* App's state is the same either way.)
CreateNewConversation ==
  /\ ~pendingCreate
  /\ pendingCreate' = TRUE
  /\ UNCHANGED <<convVars, input, loading, stageVars, streams, pendingGet, selected, nconvs,
                 alerts, turns, streamVars, authVars, pdfVars>>

\* createNewConversation, after api.createConversation resolved
CreateResolved ==
  /\ pendingCreate
  /\ nconvs < MaxConvs
  /\ pendingCreate' = FALSE
  /\ nconvs' = nconvs + 1
  /\ currentConversation' = [id |-> nconvs + 1, title |-> NewTitle]
  /\ messages' = <<>>
  /\ ResetCouncilState
  /\ ClearPdfState
  /\ UNCHANGED <<input, loading, streams, pendingGet, selected, alerts, turns, streamVars, authVars,
                 uploadingPdf, pendingUpload>>

\* createNewConversation, after api.createConversation rejected: the catch logs
CreateFailed ==
  /\ pendingCreate
  /\ pendingCreate' = FALSE
  /\ UNCHANGED <<convVars, input, loading, stageVars, streams, pendingGet, selected, nconvs,
                 alerts, turns, streamVars, authVars, pdfVars>>

\* selectConversation(conv), up to its await. (The click itself is recorded
\* in selected by the specification that observes the order of the clicks.)
SelectConversation(c) ==
  /\ c \in 1..nconvs
  /\ c \notin pendingGet
  /\ pendingGet' = pendingGet \cup {c}
  /\ UNCHANGED <<convVars, input, loading, stageVars, streams, pendingCreate, nconvs,
                 alerts, turns, streamVars, authVars, pdfVars>>

\* selectConversation(conv), after api.getConversation resolved with fullConv
SelectResolved(c, fullConv) ==
  /\ c \in pendingGet
  /\ pendingGet' = pendingGet \ {c}
  /\ currentConversation' = [id |-> fullConv.id, title |-> fullConv.title]
  /\ messages' = fullConv.messages
  /\ ResetCouncilState
  /\ ClearPdfState
  /\ UNCHANGED <<input, loading, streams, selected, pendingCreate, nconvs, alerts, turns,
                 streamVars, authVars, uploadingPdf, pendingUpload>>

\* selectConversation(conv), after api.getConversation rejected: the catch logs
SelectFailed(c) ==
  /\ c \in pendingGet
  /\ pendingGet' = pendingGet \ {c}
  /\ UNCHANGED <<convVars, input, loading, stageVars, streams, selected, pendingCreate, nconvs,
                 alerts, turns, streamVars, authVars, pdfVars>>

\* the guard of sendMessage: it returns at once on an empty input, without a
\* conversation, or while loading
SendRejectedWithoutConversation == currentConversation = Null
SendRejected == Trim(input) = "" \/ currentConversation = Null \/ loading

\* sendMessage, up to the await of api.sendMessageStream: the user's message is
\* shown, the stage buffers are reset, stage 1 is awaited and the stream call
\* is open; its handlers keep the currentConversation of this render
SendMessage ==
  /\ turns < MaxTurns
  /\ IF SendRejected
     THEN /\ lastSend' = "returned"
          /\ UNCHANGED <<convVars, input, loading, stageVars, streams, requestVars,
                         lastAlert, turns, streamVars, authVars, pdfVars>>
     ELSE /\ messages' = Append(messages, [role |-> "user", content |-> DisplayContent])
          /\ input' = ""
          /\ loading' = TRUE
          /\ stage1Results' = Null
          /\ stage2Results' = Null
          /\ stage3Result' = Null
          /\ metadata' = Null
          /\ currentStage' = Num(1)
          /\ streams' = Append(streams, [conv |-> currentConversation,
                                         before |-> messages, reads |-> 0,
                                         pdfData |-> pdfData,
                                         pdfFilename |-> pdfFilename])
          /\ turns' = turns + 1
          /\ lastSend' = "opened"
          /\ lastAlert' = ""
          /\ ClearPdfState
          /\ UNCHANGED <<currentConversation, requestVars, streamVars, authVars,
                         uploadingPdf, pendingUpload>>

\* the state the handlers of a stream call write
HandlerState ==
  [stage1Results |-> stage1Results, stage2Results |-> stage2Results,
   stage3Result |-> stage3Result, metadata |-> metadata,
   currentStage |-> currentStage, currentConversation |-> currentConversation]

\* the four handlers sendMessage passes to api.sendMessageStream; conv is the
\* currentConversation they captured
ApplyCallTitleResets(st, call, conv) ==
  CASE call.handler = "onStage1" ->
         [st EXCEPT !.stage1Results = call.args[1], !.currentStage = Num(2)]
    [] call.handler = "onStage2" ->
         [st EXCEPT !.stage2Results = call.args[1], !.metadata = call.args[2],
                    !.currentStage = Num(3)]
    [] call.handler = "onStage3" ->
         [st EXCEPT !.stage3Result = call.args[1], !.currentStage = Null]
    [] call.handler = "onTitleUpdate" ->
         [st EXCEPT !.currentConversation = [id |-> conv.id, title |-> call.args[1]],
                    !.currentStage = Null]
ApplyCall(st, call, conv) ==
  CASE call.handler = "onStage1" ->
         [st EXCEPT !.stage1Results = call.args[1], !.currentStage = Num(2)]
    [] call.handler = "onStage2" ->
         [st EXCEPT !.stage2Results = call.args[1], !.metadata = call.args[2],
                    !.currentStage = Num(3)]
    [] call.handler = "onStage3" ->
         [st EXCEPT !.stage3Result = call.args[1], !.currentStage = Null]
    [] call.handler = "onTitleUpdate" ->
         [st EXCEPT !.currentConversation = [id |-> conv.id, title |-> call.args[1]]]

RECURSIVE ApplyCalls(_, _, _)
ApplyCalls(st, cs, conv) ==
  IF cs = <<>> THEN st
  ELSE ApplyCalls(ApplyCall(st, Head(cs), conv), Tail(cs), conv)

\* the await of api.sendMessageStream returns: finally
Resolves(i) ==
  /\ loading' = FALSE
  /\ streams' = Remove(streams, i)
  /\ lastSend' = "resolved"
  /\ UNCHANGED <<messages, lastAlert>>

\* the await of api.sendMessageStream throws: catch, then finally
RejectsWithoutFinally(i, message) ==
  /\ lastAlert' = "Error: " \o message
  /\ lastSend' = "rejected"
  /\ streams' = Remove(streams, i)
  /\ UNCHANGED <<messages, loading>>
Rejects(i, message) ==
  /\ lastAlert' = "Error: " \o message
  /\ lastSend' = "rejected"
  /\ loading' = FALSE
  /\ streams' = Remove(streams, i)
  /\ UNCHANGED messages

\* reader.read() of the i-th open call returns a chunk: the handlers of its
\* frames run, and the call goes on, returns or throws
StreamRead(i, chunk) ==
  /\ i \in 1..Len(streams)
  /\ streams[i].reads < MaxReads
  /\ \E r \in {ProcessChunk(chunk)} :
       /\ \E st \in {ApplyCalls(HandlerState, r.calls, streams[i].conv)} :
            /\ stage1Results' = st.stage1Results
            /\ stage2Results' = st.stage2Results
            /\ stage3Result' = st.stage3Result
            /\ metadata' = st.metadata
            /\ currentStage' = st.currentStage
            /\ currentConversation' = st.currentConversation
       /\ CASE r.ctl = "next" ->
                 /\ streams' = [streams EXCEPT ![i].reads = @ + 1]
                 /\ UNCHANGED <<messages, loading, alerts>>
            [] r.ctl = "return" -> Resolves(i)
            [] r.ctl = "throw" -> Rejects(i, r.message)
  /\ UNCHANGED <<input, requestVars, turns, streamVars, authVars, pdfVars>>

\* reader.read() of the i-th open call returns done: the call resolves
StreamEnd(i) ==
  /\ i \in 1..Len(streams)
  /\ Resolves(i)
  /\ UNCHANGED <<currentConversation, input, stageVars, requestVars, turns, streamVars, authVars, pdfVars>>

\* the response of the i-th open call has a non-success status
HttpFailure(i) ==
  /\ i \in 1..Len(streams)
  /\ streams[i].reads = 0
  /\ Rejects(i, "Failed to send message")
  /\ UNCHANGED <<currentConversation, input, stageVars, requestVars, turns, streamVars, authVars, pdfVars>>

\* the fetch or a reader.read() of the i-th open call rejects
TransportFailure(i) ==
  /\ i \in 1..Len(streams)
  /\ Rejects(i, NetworkErrorMessage)
  /\ UNCHANGED <<currentConversation, input, stageVars, requestVars, turns, streamVars, authVars, pdfVars>>

\* s.toLowerCase(), over the letters of the file names of the model
LowerOf(c) ==
  CASE c = "B" -> "b"
    [] c = "D" -> "d"
    [] c = "F" -> "f"
    [] c = "P" -> "p"
    [] OTHER -> c

RECURSIVE ToLowerCase(_)
ToLowerCase(s) ==
  IF s = "" THEN "" ELSE LowerOf(SubSeq(s, 1, 1)) \o ToLowerCase(SubSeq(s, 2, Len(s)))

\* s.endsWith(suffix)
EndsWith(s, suffix) ==
  Len(s) >= Len(suffix) /\ SubSeq(s, Len(s) - Len(suffix) + 1, Len(s)) = suffix

\* the files the user may choose, and what the backend answers to the upload
\* of one
Files == {"a.pdf", "B.PDF", "c.txt"}
UploadResult(name) == Obj([base64 |-> Str("base64:" \o name), filename |-> Str(name)])
UploadErrorMessage == "Failed to upload PDF"

\* handlePdfUpload, to its await of api.uploadPdf; file is event.target.files?.[0].
\* The button that opens the file dialog is disabled while loading or uploading.
HandlePdfUpload(file) ==
  /\ currentConversation # Null
  /\ ~loading
  /\ ~uploadingPdf
  /\ IF ~Truthy(file)
     THEN UNCHANGED <<lastAlert, uploadingPdf, pendingUpload>>
     ELSE IF ~EndsWith(ToLowerCase(file.text), ".pdf")
     THEN /\ lastAlert' = "Please select a PDF file"
          /\ UNCHANGED <<uploadingPdf, pendingUpload>>
     ELSE /\ uploadingPdf' = TRUE
          /\ pendingUpload' = file
          /\ UNCHANGED lastAlert
  /\ UNCHANGED <<convVars, input, loading, stageVars, streams, requestVars, lastSend, turns,
                 pdfData, pdfFilename, streamVars, authVars>>

\* the attachment handlePdfUpload stages from the result of api.uploadPdf
StagedKeepsName(result) ==
  [pdfData |-> Prop(result, "base64"), pdfFilename |-> pdfFilename]
Staged(result) ==
  [pdfData |-> Prop(result, "base64"), pdfFilename |-> Prop(result, "filename")]

\* handlePdfUpload, after api.uploadPdf resolved with result: then finally
UploadResolved(result) ==
  /\ pendingUpload # Null
  /\ result = UploadResult(pendingUpload.text)
  /\ pdfData' = Staged(result).pdfData
  /\ pdfFilename' = Staged(result).pdfFilename
  /\ uploadingPdf' = FALSE
  /\ pendingUpload' = Null
  /\ UNCHANGED <<convVars, input, loading, stageVars, streams, requestVars, alerts, turns,
                 streamVars, authVars>>

\* handlePdfUpload, after api.uploadPdf rejected: catch, then finally
UploadFailed ==
  /\ pendingUpload # Null
  /\ lastAlert' = "Failed to upload PDF: " \o UploadErrorMessage
  /\ uploadingPdf' = FALSE
  /\ pendingUpload' = Null
  /\ UNCHANGED <<convVars, input, loading, stageVars, streams, requestVars, lastSend, turns,
                 pdfData, pdfFilename, streamVars, authVars>>

\* removePdf, the button of the badge that shows the staged file's name
RemovePdf ==
  /\ currentConversation # Null
  /\ Truthy(pdfFilename)
  /\ ClearPdfState
  /\ UNCHANGED <<convVars, input, loading, stageVars, streams, requestVars, alerts, turns,
                 uploadingPdf, pendingUpload, streamVars, authVars>>

Init == AppInit /\ CallIdle /\ AuthIdle

Next ==
  \/ \E v \in Inputs : SetInput(v)
  \/ CreateNewConversation
  \/ CreateResolved
  \/ CreateFailed
  \/ \E c \in 1..MaxConvs : SelectConversation(c) /\ UNCHANGED selected
  \/ \E c \in 1..MaxConvs : \E fullConv \in GetResponses(c) : SelectResolved(c, fullConv)
  \/ \E c \in 1..MaxConvs : SelectFailed(c)
  \/ SendMessage
  \/ \E i \in 1..Len(streams) : \E chunk \in AppChunks : StreamRead(i, chunk)
  \/ \E i \in 1..Len(streams) : StreamEnd(i)
  \/ \E i \in 1..Len(streams) : HttpFailure(i)
  \/ \E i \in 1..Len(streams) : TransportFailure(i)

Spec == Init /\ [][Next]_vars

(***************************************************************************)
(* The App component with attachments: one conversation, the input "hi",   *)
(* and responses that settle the turn or fail it.                          *)
(***************************************************************************)
AttachChunks == {EncodeFrames(<<Stage3Text, CompleteText>>), EncodeFrame(ErrorText)}

AttachNext ==
  \/ SetInput("hi")
  \/ CreateNewConversation
  \/ CreateResolved
  \/ SelectConversation(1) /\ UNCHANGED selected
  \/ \E fullConv \in GetResponses(1) : SelectResolved(1, fullConv)
  \/ SendMessage
  \/ \E chunk \in AttachChunks : StreamRead(1, chunk)
  \/ StreamEnd(1)
  \/ HttpFailure(1)
  \/ \E file \in {Undefined} \cup {Str(f) : f \in Files} : HandlePdfUpload(file)
  \/ \E f \in Files : UploadResolved(UploadResult(f))
  \/ UploadFailed
  \/ RemovePdf

SpecAttach == Init /\ [][AttachNext]_vars

(***************************************************************************)
(* The call of api.sendMessageStream with everything that can end it: the  *)
(* status of the response, a read that fails, and frames whose payload is  *)
(* any JSON value (an object, null, a number, a string) or is not JSON.    *)
(***************************************************************************)
\* the payloads that are JSON values but not objects
ValuePayloads == {NullText, NumberText, StringText}

\* await reader.read() rejects: the error leaves the while loop and the call
ReadFails ==
  /\ outcome = "pending"
  /\ response = "ok"
  /\ outcome' = "rejected"
  /\ thrown' = NetworkErrorMessage
  /\ UNCHANGED <<sent, body, nreads, calls, response, appVars, authVars>>

FatalInit ==
  sent \in FrameSeqs(Payloads \cup ValuePayloads) /\ FetchInit /\ AppInit /\ AuthIdle

FatalNext ==
  \/ \E ok \in BOOLEAN : ResponseArrives(ok)
  \/ \E n \in 1..Len(body) : ReadAligned(n)
  \/ ReadDone
  \/ ReadFails

SpecFatal == FatalInit /\ [][FatalNext]_vars

(***************************************************************************)
(* The turns of the App component, with conversations created and the      *)
(* first one selected meanwhile, and with a transport that does not leave  *)
(* a response open for ever: in the end it delivers the end of the stream, *)
(* or it fails.                                                            *)
(***************************************************************************)
TurnNext ==
  \/ \E v \in Inputs : SetInput(v)
  \/ CreateNewConversation
  \/ CreateResolved
  \/ SelectConversation(1) /\ UNCHANGED selected
  \/ \E fullConv \in GetResponses(1) : SelectResolved(1, fullConv)
  \/ SendMessage
  \/ \E i \in 1..Len(streams) : \E chunk \in AppChunks : StreamRead(i, chunk)
  \/ \E i \in 1..Len(streams) : StreamEnd(i)
  \/ \E i \in 1..Len(streams) : HttpFailure(i)
  \/ \E i \in 1..Len(streams) : TransportFailure(i)

\* the transport ends the response of an open call, or fails
TransportSettles == \E i \in 1..Len(streams) : StreamEnd(i) \/ TransportFailure(i)

SpecTurnFair == Init /\ [][TurnNext]_vars /\ WF_vars(TransportSettles)

(***************************************************************************)
(* The App component with overlapping selections: the user clicks          *)
(* conversations in the sidebar while earlier fetches are in flight, every *)
(* fetch resolves, and the last click is recorded.                         *)
(***************************************************************************)
SelectNext ==
  \/ \E v \in Inputs : SetInput(v)
  \/ CreateNewConversation
  \/ CreateResolved
  \/ \E c \in 1..MaxConvs : SelectConversation(c) /\ selected' = c
  \/ \E c \in 1..MaxConvs : \E fullConv \in GetResponses(c) : SelectResolved(c, fullConv)

SpecSelect == Init /\ [][SelectNext]_vars

(***************************************************************************)
(* The session: the credential calls of the API client (api.login,         *)
(* api.register, api.getCurrentUser, api.getAuthHeaders) and AuthProvider. *)
(***************************************************************************)
API_BASE == "http://localhost:8001"

\* the message of the error a credential call throws for a failed fetch
ConnectivityMessage ==
  "Cannot connect to server. Please check if the backend is running at " \o API_BASE

\* the message of the TypeError a rejected fetch carries
FetchFailedMessage == "Failed to fetch"

\* what the backend answers to a credential exchange: an HTTP response whose
\* body is JSON or is not, or no response at all
NotJson == [kind |-> "notjson"]
HttpResponse(ok, status, statusText, json) ==
  [kind |-> "http", ok |-> ok, status |-> status, statusText |-> statusText, json |-> json]
NetworkFailure == [kind |-> "network"]

Tokens == {"t1", "t2"}
Users == {"u1"}
Details == {"Incorrect username or password", "Server error: try again later", ""}

AuthResponses ==
  {NetworkFailure}
    \cup {HttpResponse(TRUE, "200", "OK", Obj([access_token |-> Str(t), user |-> Str(u)])) :
            t \in Tokens, u \in Users}
    \cup {HttpResponse(FALSE, "401", "Unauthorized", Obj([detail |-> Str(d)])) : d \in Details}
    \cup {HttpResponse(FALSE, "500", "Internal Server Error", Obj(<<>>)),
          HttpResponse(FALSE, "502", "Bad Gateway", NotJson)}

\* how an async call ends
Resolved(v) == [kind |-> "resolved", value |-> v]
Rejected(m) == [kind |-> "rejected", message |-> m]

\* the try block of api.login / api.register
AuthTry(resp, defaultMessage) ==
  IF resp.kind = "network" THEN Rejected(FetchFailedMessage)
  ELSE IF ~resp.ok
    THEN Rejected(IF resp.json = NotJson
                  THEN "Server error: " \o resp.status \o " " \o resp.statusText
                  ELSE IF Truthy(Prop(resp.json, "detail"))
                  THEN Prop(resp.json, "detail").text
                  ELSE defaultMessage)
    ELSE Resolved(resp.json)

\* the catch clause of api.login / api.register: an error whose message does
\* not name a server error is thrown again
AuthRethrows(message) == message # "" /\ ~Includes(message, "Server error")

AuthCall(resp, defaultMessage) ==
  LET r == AuthTry(resp, defaultMessage) IN
    IF r.kind = "rejected" /\ ~AuthRethrows(r.message)
    THEN Rejected(ConnectivityMessage) ELSE r

ApiLogin(resp) == AuthCall(resp, "Failed to login")
ApiRegister(resp) == AuthCall(resp, "Failed to register")

\* the headers of a request: a function from header names to values
NoHeaders == <<>>
Bearer(token) == "Bearer " \o token.text

\* api.getAuthHeaders(), token being the authToken it reads
GetAuthHeadersWithoutToken(token) == "Content-Type" :> "application/json"
GetAuthHeaders(token) ==
  IF Truthy(token)
  THEN ("Content-Type" :> "application/json") @@ ("Authorization" :> Bearer(token))
  ELSE "Content-Type" :> "application/json"

\* the headers api.uploadPdf builds itself
UploadHeaders(token) ==
  IF Truthy(token) THEN "Authorization" :> Bearer(token) ELSE NoHeaders

\* the calls of the API client that carry the headers of the session
HeaderCalls ==
  {"listConversations", "createConversation", "getConversation", "deleteConversation",
   "sendMessage", "sendMessageStream"}
AuthenticatedCalls == HeaderCalls \cup {"uploadPdf"}

RequestOf(name, token) ==
  [name |-> name,
   headers |-> IF name = "uploadPdf" THEN UploadHeaders(token) ELSE GetAuthHeaders(token)]

\* localStorage.setItem('token', v) stores the string of v
ToStorage(v) ==
  CASE v.kind = "string" -> v
    [] v.kind = "undefined" -> Str("undefined")
    [] v.kind = "null" -> Str("null")

\* the session: the persisted token, the token in memory and the user
Session == [persisted |-> persisted, authToken |-> authToken, user |-> user]
SetSession(session) ==
  /\ persisted' = session.persisted
  /\ authToken' = session.authToken
  /\ user' = session.user

\* AuthProvider's initial state, before its mount effect has run: the storage
\* holds no token, or the token of an earlier visit
AuthInit ==
  /\ persisted \in {Null, Str("t0")}
  /\ authToken = Null
  /\ user = Null
  /\ authLoading = TRUE
  /\ restore = "mounting"
  /\ submitting = "none"
  /\ authResult = [kind |-> "none"]
  /\ lastResponse = Null
  /\ lastRequest = Null
  /\ nrequests = 0

\* the else branch of the mount effect: no token, setLoading(false)
LoadingWithoutTokenStays == TRUE
LoadingWithoutToken == FALSE

\* the mount effect: without a persisted token loading ends at once; with one,
\* the token is set in memory and api.getCurrentUser() is called with it
Restore ==
  /\ restore = "mounting"
  /\ IF Truthy(persisted)
     THEN /\ authToken' = persisted
          /\ restore' = "pending"
          /\ lastRequest' = [name |-> "getCurrentUser", headers |-> GetAuthHeaders(authToken')]
          /\ nrequests' = nrequests + 1
          /\ UNCHANGED <<persisted, user, authLoading>>
     ELSE /\ authLoading' = LoadingWithoutToken
          /\ restore' = "absent"
          /\ UNCHANGED <<sessionVars, lastRequest, nrequests>>
  /\ UNCHANGED <<submitting, authResult, lastResponse, streamVars, appVars>>

\* api.getCurrentUser() resolved: then, finally
RestoreResolved(userData) ==
  /\ restore = "pending"
  /\ user' = userData
  /\ authLoading' = FALSE
  /\ restore' = "verified"
  /\ UNCHANGED <<persisted, authToken, submitting, authResult, lastResponse, lastRequest,
                 nrequests, streamVars, appVars>>

\* the session the catch of the mount effect leaves
RestoreCatchKeepsToken == [Session EXCEPT !.persisted = Null]
RestoreCatch == [Session EXCEPT !.persisted = Null, !.authToken = Null]

\* api.getCurrentUser() rejected (a non-success status or a failed fetch):
\* catch, finally
RestoreRejected ==
  /\ restore = "pending"
  /\ SetSession(RestoreCatch)
  /\ authLoading' = FALSE
  /\ restore' = "discarded"
  /\ UNCHANGED <<submitting, authResult, lastResponse, lastRequest, nrequests,
                 streamVars, appVars>>

\* login, register and logout run when the session is known and no other of
\* them is in flight
SingleWriter == ~authLoading /\ submitting = "none"

\* login(username, password), to its await of api.login
Login ==
  /\ SingleWriter
  /\ submitting' = "login"
  /\ UNCHANGED <<sessionVars, authLoading, restore, authResult, lastResponse, lastRequest,
                 nrequests, streamVars, appVars>>

\* register(username, email, password), to its await of api.register
Register ==
  /\ SingleWriter
  /\ submitting' = "register"
  /\ UNCHANGED <<sessionVars, authLoading, restore, authResult, lastResponse, lastRequest,
                 nrequests, streamVars, appVars>>

\* the session after the await of login / register ended as r: the three
\* setters run when it returned, none when it threw
SessionAfterClearsOnFailure(r) ==
  IF r.kind = "resolved"
  THEN [persisted |-> ToStorage(Prop(r.value, "access_token")),
        authToken |-> Prop(r.value, "access_token"),
        user |-> Prop(r.value, "user")]
  ELSE [persisted |-> Null, authToken |-> Null, user |-> Null]
SessionAfterUnpersisted(r) ==
  IF r.kind = "resolved"
  THEN [persisted |-> persisted,
        authToken |-> Prop(r.value, "access_token"),
        user |-> Prop(r.value, "user")]
  ELSE Session
SessionAfter(r) ==
  IF r.kind = "resolved"
  THEN [persisted |-> ToStorage(Prop(r.value, "access_token")),
        authToken |-> Prop(r.value, "access_token"),
        user |-> Prop(r.value, "user")]
  ELSE Session

\* login / register after the await: the backend answered resp (or did not)
Settles(resp) ==
  /\ submitting # "none"
  /\ \E r \in {IF submitting = "login" THEN ApiLogin(resp) ELSE ApiRegister(resp)} :
       /\ authResult' = r
       /\ SetSession(SessionAfter(r))
  /\ lastResponse' = resp
  /\ submitting' = "none"
  /\ UNCHANGED <<authLoading, restore, lastRequest, nrequests, streamVars, appVars>>

\* the session logout leaves
LoggedOutKeepsStorage == [persisted |-> persisted, authToken |-> Null, user |-> Null]
LoggedOut == [persisted |-> Null, authToken |-> Null, user |-> Null]

\* logout()
Logout ==
  /\ SingleWriter
  /\ SetSession(LoggedOut)
  /\ UNCHANGED <<authLoading, restore, submitting, authResult, lastResponse, lastRequest,
                 nrequests, streamVars, appVars>>

\* a call of the API client that carries the session's headers
Request(name) ==
  /\ nrequests < MaxRequests
  /\ lastRequest' = RequestOf(name, authToken)
  /\ nrequests' = nrequests + 1
  /\ UNCHANGED <<sessionVars, authLoading, restore, submitting, authResult, lastResponse,
                 streamVars, appVars>>

SessionInit == AuthInit /\ AppInit /\ CallIdle

RestoreSettles == RestoreRejected \/ RestoreResolved(Str("u0"))

SessionNext ==
  \/ Restore
  \/ RestoreResolved(Str("u0"))
  \/ RestoreRejected
  \/ Login
  \/ Register
  \/ \E resp \in AuthResponses : Settles(resp)
  \/ Logout
  \/ \E name \in AuthenticatedCalls : Request(name)

SpecSession == SessionInit /\ [][SessionNext]_vars

\* the mount effect runs after the first render, and the verification request
\* settles
SpecSessionFair ==
  SessionInit /\ [][SessionNext]_vars /\ WF_vars(Restore) /\ WF_vars(RestoreSettles)

(***************************************************************************)
(* AuthProvider alone: login, register and logout are functions of the     *)
(* context value, and AuthProvider itself does not hold them back while    *)
(* the verification of the persisted token is pending.  The form of the    *)
(* Login component submits one credential call at a time.                  *)
(***************************************************************************)
\* the form of the Login component is not submitting
FormIdle == submitting = "none"

\* login(username, password), to its await of api.login
LoginAnytime ==
  /\ FormIdle
  /\ submitting' = "login"
  /\ UNCHANGED <<sessionVars, authLoading, restore, authResult, lastResponse, lastRequest,
                 nrequests, streamVars, appVars>>

\* register(username, email, password), to its await of api.register
RegisterAnytime ==
  /\ FormIdle
  /\ submitting' = "register"
  /\ UNCHANGED <<sessionVars, authLoading, restore, authResult, lastResponse, lastRequest,
                 nrequests, streamVars, appVars>>

\* logout()
LogoutAnytime ==
  /\ SetSession(LoggedOut)
  /\ UNCHANGED <<authLoading, restore, submitting, authResult, lastResponse, lastRequest,
                 nrequests, streamVars, appVars>>

ProviderNext ==
  \/ Restore
  \/ RestoreResolved(Str("u0"))
  \/ RestoreRejected
  \/ LoginAnytime
  \/ RegisterAnytime
  \/ \E resp \in AuthResponses : Settles(resp)
  \/ LogoutAnytime

SpecProvider == SessionInit /\ [][ProviderNext]_vars

(***************************************************************************)
(* Properties of api.sendMessageStream.                                    *)
(***************************************************************************)
\* what the call does when the frames fs arrive as one chunk, then end of stream
Whole(fs) ==
  LET r == ProcessChunk(EncodeFrames(fs)) IN
    [calls |-> r.calls,
     outcome |-> IF r.ctl = "throw" THEN "rejected" ELSE "resolved",
     thrown |-> r.message]

\* what the call has done so far
Observed == [calls |-> calls, outcome |-> outcome, thrown |-> thrown]

\* the frames of the protocol: well-formed, of a recognised type, or the sentinel
ProtocolPayloads ==
  {Stage1Text, Stage2Text, Stage3Text, TitleText, CompleteText, ErrorText, DoneText}
ValidFrames == \A i \in 1..Len(sent) : sent[i] \in ProtocolPayloads

\* the number of whole frames the transport has delivered (aligned delivery)
Delivered == Len(sent) - Cardinality({i \in 1..Len(body) : SubSeq(body, i, i) = "\n"})

\* the frames before the i-th, taken alone, neither end the call nor fail it
OpenBefore(i) == ProcessChunk(EncodeFrames(SubSeq(sent, 1, i - 1))).ctl = "next"

\* a step in which reader.read() returned a chunk, and the lines of that chunk
ReadStep == nreads' = nreads + 1
StepLines == Split(SubSeq(body, 1, Len(body) - Len(body')))

\* the lines before the i-th of a chunk, taken alone
LinesBefore(lines, i) == ProcessLines(SubSeq(lines, 1, i - 1), <<>>)

\* C1: chunk-boundary invariance. For every valid sequence of frames and every
\* way of cutting its encoded text into chunks, the handler calls and the final
\* outcome of the call are those of the delivery as one chunk.
C1_ChunkBoundaryInvariance ==
  (outcome # "pending" /\ ValidFrames) => Observed = Whole(sent)

\* an error frame that carries a message
IsErrorWithMessage(p) ==
  IsJson(p) /\ Prop(JsonTable[p], "type") = Str("error")
            /\ Prop(JsonTable[p], "message").kind = "string"

\* C8: an error frame is fatal whatever its message. Once a frame of type
\* 'error' with message m has been delivered (no frame before it having ended
\* the call), the call has rejected with message m and has made no handler call
\* for a later frame.
C8_ErrorFrameFatal ==
  \A i \in 1..Delivered :
    (IsErrorWithMessage(sent[i]) /\ OpenBefore(i)) =>
      /\ outcome = "rejected"
      /\ thrown = Prop(JsonTable[sent[i]], "message").text
      /\ calls = Whole(SubSeq(sent, 1, i - 1)).calls

\* a data line whose payload JSON.parse rejects
UnparseableLine(line) ==
  StartsWith(line, "data: ") /\ Slice(line, 6) # DoneText /\ ~IsJson(Slice(line, 6))
ParseableLine(line) == ~UnparseableLine(line)

\* C9: a frame whose payload is not JSON is skipped. Whatever chunk a read
\* returns, the call does with it what it would do with the same lines less
\* the data lines whose payload does not parse: it does not reject because of
\* them, makes no handler call for them, and the lines after them are
\* dispatched in order.
C9_MalformedFrameSkipped ==
  [][ReadStep =>
       \A r \in {ProcessLines(SelectSeq(StepLines, ParseableLine), <<>>)} :
         /\ calls' = calls \o r.calls
         /\ (outcome' = "rejected") = (r.ctl = "throw")
         /\ (outcome' = "resolved") = (r.ctl = "return")
         /\ thrown' = r.message]_vars

\* a finished call whose first frame was unparseable and whose second frame
\* was dispatched
C9_Witness ==
  /\ sent = <<MalformedText, Stage1Text>>
  /\ outcome = "resolved"
  /\ calls = <<Call("onStage1", <<Str("a")>>)>>

\* a data line that holds the sentinel or a frame of type 'complete'
IsEndLine(line) ==
  /\ StartsWith(line, "data: ")
  /\ \/ Slice(line, 6) = DoneText
     \/ /\ IsJson(Slice(line, 6))
        /\ Prop(JsonTable[Slice(line, 6)], "type") = Str("complete")

\* C10: the sentinel and a 'complete' frame end the call successfully. When a
\* read returns a chunk with such a line (no line before it having ended the
\* call), the call resolves without an error and its handler calls are those of
\* the lines before that line; a call that has resolved or rejected makes no
\* further handler call, whatever is left of the body.
C10_EndOfStreamStops ==
  [][/\ ReadStep =>
          \A lines \in {StepLines} : \A i \in 1..Len(lines) :
            (IsEndLine(lines[i]) /\ LinesBefore(lines, i).ctl = "next") =>
              /\ outcome' = "resolved"
              /\ thrown' = ""
              /\ calls' = calls \o LinesBefore(lines, i).calls
     /\ outcome # "pending" => UNCHANGED <<calls, outcome, thrown>>]_vars

\* the call resolved at a 'complete' frame that a stage frame followed in the
\* same chunk: the stage frame was not dispatched
C10_Witness ==
  /\ sent = <<CompleteText, Stage1Text>>
  /\ nreads = 1 /\ body = ""
  /\ outcome = "resolved"
  /\ calls = <<>>


(***************************************************************************)
(* Properties of the App.                                                  *)
(***************************************************************************)
\* a step of the i-th open stream call: a chunk read, the end of the stream or
\* a failure
StepOf(i) ==
  /\ i \in 1..Len(streams)
  /\ \/ streams' = Remove(streams, i)
     \/ streams' = [streams EXCEPT ![i].reads = @ + 1]

\* a step of an open stream call
StreamStep == turns' = turns /\ \E i \in 1..Len(streams) : StepOf(i)

\* a step in which the await of api.sendMessageStream returns, or throws
ResolvingStep == StreamStep /\ lastSend' = "resolved"
RejectingStep == StreamStep /\ lastSend' = "rejected"

\* the conversation shown is no longer the one the i-th open call was sent for
Superseded(i) == currentConversation = Null \/ currentConversation.id # streams[i].conv.id

\* the position of currentStage in Awaiting1 -> Awaiting2 -> Awaiting3 -> Settled
Rank(stage) == IF stage = Null THEN 4 ELSE stage.num

\* C2: stage monotonicity. A step of the stream of a turn never moves
\* currentStage backwards and never overwrites a stage result already stored,
\* whatever the order of the stage frames.
C2_StageMonotonicity ==
  [][StreamStep =>
       /\ Rank(currentStage') >= Rank(currentStage)
       /\ stage1Results # Null => stage1Results' = stage1Results
       /\ stage2Results # Null => stage2Results' = stage2Results /\ metadata' = metadata
       /\ stage3Result # Null => stage3Result' = stage3Result]_vars

\* C3: staleness isolation. Once another conversation has been selected or
\* created while a turn's stream is open, what that stream delivers changes
\* neither the stage buffers, nor currentStage, nor currentConversation, nor
\* messages.
C3_StalenessIsolation ==
  [][\A i \in 1..Len(streams) :
       (turns' = turns /\ StepOf(i) /\ Superseded(i)) => UNCHANGED <<stageVars, convVars>>]_vars

\* C4: at most one in-flight turn. While a stream call is open, loading is set
\* and the guard of sendMessage returns at once, so that never more than one
\* stream call is open.
C4_AtMostOneInFlight ==
  /\ Len(streams) <= 1
  /\ streams # <<>> => loading /\ SendRejected /\ lastSend \in {"opened", "returned"}

\* sendMessage was invoked while its stream call was open, and returned at once
C4_Witness ==
  /\ Len(streams) = 1
  /\ streams[1].reads = 1
  /\ lastSend = "returned"
  /\ turns = 1

\* the one assistant message of a settled turn
MergedMessage(s1, s2, s3, meta) ==
  [role |-> "assistant", stage1 |-> s1, stage2 |-> s2, stage3 |-> s3, metadata |-> meta]

\* C5: settlement appends the merged message. When the stream call of a turn
\* returns after a stage 3 event, one assistant message holding the stage
\* results of the turn is appended to the messages of its conversation.
C5_SettlementAppends ==
  [][\A i \in 1..Len(streams) :
       (ResolvingStep /\ StepOf(i) /\ ~Superseded(i) /\ stage3Result' # Null) =>
         messages' = Append(messages, MergedMessage(stage1Results', stage2Results',
                                                    stage3Result', metadata'))]_vars

\* C6: an errored turn leaves the history untouched. When the stream call of a
\* turn throws, the messages are those from before the send.
C6_ErroredTurnHistory ==
  [][\A i \in 1..Len(streams) :
       (RejectingStep /\ StepOf(i) /\ ~Superseded(i)) => messages' = streams[i].before]_vars

\* C7: error reset. When the stream call of a turn throws, the stage buffers
\* are discarded, the error is shown, currentStage is null and loading is
\* false.
C7_ErrorReset ==
  [][RejectingStep =>
       /\ stage1Results' = Null
       /\ stage2Results' = Null
       /\ stage3Result' = Null
       /\ metadata' = Null
       /\ currentStage' = Null
       /\ loading' = FALSE
       /\ lastAlert' # ""]_vars

\* the stage a handler call belongs to
StageOf(call) ==
  CASE call.handler = "onStage1" -> 1
    [] call.handler = "onStage2" -> 2
    [] call.handler = "onStage3" -> 3

IsStageCall(call) == call.handler # "onTitleUpdate"

\* C11: event-order contract. Whatever frames the backend sends, the handler
\* calls the stream has made are stage 1 calls, then stage 2 calls, then at
\* most one stage 3 call, with at most one title update among them.
C11_EventOrder ==
  /\ \A i, j \in 1..Len(calls) :
       (i < j /\ IsStageCall(calls[i]) /\ IsStageCall(calls[j])) =>
         StageOf(calls[i]) <= StageOf(calls[j])
  /\ Cardinality({i \in 1..Len(calls) : calls[i].handler = "onStage3"}) <= 1
  /\ Cardinality({i \in 1..Len(calls) : calls[i].handler = "onTitleUpdate"}) <= 1

\* the types of the frames of the protocol
RecognizedTypes ==
  {Str("stage1_complete"), Str("stage2_complete"), Str("stage3_complete"),
   Str("title_update"), Str("title_complete"), Str("complete"), Str("error")}

\* a data line whose payload is a JSON object of a type that is not recognized
UnrecognizedLine(line) ==
  /\ StartsWith(line, "data: ")
  /\ IsJson(Slice(line, 6))
  /\ Prop(JsonTable[Slice(line, 6)], "type") \notin RecognizedTypes
RecognizedLine(line) == ~UnrecognizedLine(line)

\* C23: frames of an unrecognized type are ignored. Whatever chunk a read
\* returns, the call does with it what it would do with the same lines less
\* the well-formed frames of an unrecognized type: such a frame invokes no
\* handler, raises no error and does not stop the stream, and the frames after
\* it are dispatched in order.
C23_UnrecognizedIgnored ==
  [][ReadStep =>
       \A r \in {ProcessLines(SelectSeq(StepLines, RecognizedLine), <<>>)} :
         /\ calls' = calls \o r.calls
         /\ (outcome' = "rejected") = (r.ctl = "throw")
         /\ (outcome' = "resolved") = (r.ctl = "return")
         /\ thrown' = r.message]_vars

\* a frame of the unrecognized type 'ping' was delivered, then a stage 1 frame,
\* which was dispatched, and the stream ended
C23_Witness ==
  /\ sent = <<PingText, Stage1Text>>
  /\ body = ""
  /\ outcome = "resolved"
  /\ thrown = ""
  /\ calls = <<Call("onStage1", <<Str("a")>>)>>

\* C24: an HTTP-level failure fails the call before any event. When the
\* response has a non-success status, the call has rejected with the error
\* 'Failed to send message', has read nothing of the body and has invoked no
\* stage or title handler.
C24_HttpFailureBeforeEvents ==
  response = "notok" =>
    /\ outcome = "rejected"
    /\ thrown = "Failed to send message"
    /\ nreads = 0
    /\ body = EncodeFrames(sent)
    /\ calls = <<>>

\* the response to a call had a non-success status and a body of two frames
C24_Witness ==
  /\ response = "notok"
  /\ sent = <<Stage1Text, CompleteText>>
  /\ outcome = "rejected"

\* what the call does when the frames fs arrive one per read
RECURSIVE OneByOne(_, _)
OneByOne(fs, done) ==
  IF fs = <<>> THEN Go(done)
  ELSE LET r == ProcessChunk(EncodeFrame(Head(fs))) IN
         IF r.ctl = "next" THEN OneByOne(Tail(fs), done \o r.calls)
         ELSE [r EXCEPT !.calls = done \o r.calls]

\* the whole frames the chunk of a read step holds (aligned delivery)
StepFrames == SubSeq(sent, Delivered + 1, Delivered')

\* C25: several frames in one read are all dispatched. When a chunk holds n
\* whole frames, the read does what n reads of one frame each would do: the
\* frames are dispatched in their order, up to the first sentinel, completion
\* frame or error frame.
C25_FramesOfOneRead ==
  [][ReadStep =>
       \A r \in {OneByOne(StepFrames, <<>>)} :
         /\ calls' = calls \o r.calls
         /\ (outcome' = "rejected") = (r.ctl = "throw")
         /\ (outcome' = "resolved") = (r.ctl = "return")
         /\ thrown' = r.message]_vars

\* one read returned a chunk of two stage frames, and both were dispatched
C25_Witness ==
  /\ sent = <<Stage1Text, Stage2Text>>
  /\ nreads = 1
  /\ body = ""
  /\ calls = <<Call("onStage1", <<Str("a")>>), Call("onStage2", <<Str("b"), Str("m")>>)>>

\* the title frames of the protocol, both carrying the title "t"
TitleFrames == {TitleText, TitleUpdateText}

\* only the 'title_complete' half of C26
TitleCompleteDispatched ==
  [][(ReadStep /\ StepFrames = <<TitleText>>) =>
       calls' = Append(calls, Call("onTitleUpdate", <<Str("t")>>))]_vars

\* C26: both title frame types are recognized. A read that returns one frame
\* of type 'title_update' or of type 'title_complete' makes exactly one
\* onTitleUpdate call, with the title the frame carries.
C26_BothTitleTypes ==
  [][(ReadStep /\ Len(StepFrames) = 1 /\ StepFrames[1] \in TitleFrames) =>
       calls' = Append(calls, Call("onTitleUpdate", <<Str("t")>>))]_vars

\* a data line that holds a frame of type 'error'
IsErrorLine(line) ==
  /\ StartsWith(line, "data: ")
  /\ IsJson(Slice(line, 6))
  /\ Prop(JsonTable[Slice(line, 6)], "type") = Str("error")

\* a step in which the call rejects
RejectStep == outcome = "pending" /\ outcome' = "rejected"

\* the lines of the chunk of a read step were processed up to an error frame
StoppedAtErrorFrame ==
  \E lines \in {StepLines} : \E i \in 1..Len(lines) :
    IsErrorLine(lines[i]) /\ LinesBefore(lines, i).ctl = "next"

\* C31: only fatal conditions reject the stream call. The call rejects only
\* when the response has a non-success status, when a read of the transport
\* fails, or at a frame of type 'error'; no other frame whose payload is valid
\* JSON (the payloads null, a number and a string included) ends the stream
\* with an error.
C31_OnlyFatalRejects ==
  [][RejectStep =>
       \/ response' = "notok"
       \/ ReadFails
       \/ ReadStep /\ StoppedAtErrorFrame]_vars

(***************************************************************************)
(* Properties of the session.                                              *)
(***************************************************************************)
\* C12: session restore with a rejected token. When the verification of the
\* persisted token fails, the persisted token is removed, the token in memory
\* is cleared, the user stays absent, loading ends, and no error reaches a
\* caller.
C12_RestoreRejectedToken ==
  [][RestoreRejected =>
       /\ persisted' = Null
       /\ authToken' = Null
       /\ user' = Null
       /\ ~authLoading'
       /\ UNCHANGED authResult]_vars

\* the verification of the persisted token has failed
C12_Witness ==
  /\ restore = "discarded"
  /\ lastRequest = [name |-> "getCurrentUser", headers |-> GetAuthHeaders(Str("t0"))]
  /\ Session = [persisted |-> Null, authToken |-> Null, user |-> Null]

\* a step in which the await of login / register ends
SettleStep == submitting # "none" /\ submitting' = "none"

\* C13: a failed login or register never mutates the session. When api.login
\* or api.register rejects, the persisted token, the token in memory and the
\* user are what they were.
C13_FailureKeepsSession ==
  [][(SettleStep /\ authResult'.kind = "rejected") => UNCHANGED sessionVars]_vars

\* a login failed while a session was installed, and the session is still there
C13_Witness ==
  /\ authResult.kind = "rejected"
  /\ lastResponse \in AuthResponses
  /\ Session = [persisted |-> Str("t1"), authToken |-> Str("t1"), user |-> Str("u1")]

\* a non-success response whose JSON body carries a detail string
HasDetail(resp) ==
  /\ resp.kind = "http"
  /\ ~resp.ok
  /\ resp.json.kind = "object"
  /\ Prop(resp.json, "detail").kind = "string"

\* C14: credential rejection carries the server detail verbatim. After a
\* non-success response with a detail string d, login / register has rejected
\* with the message d; and the connectivity message is raised only without a
\* response or for a response whose body is not JSON.
C14_DetailVerbatim ==
  authResult.kind = "rejected" =>
    /\ HasDetail(lastResponse) => authResult.message = Prop(lastResponse.json, "detail").text
    /\ authResult.message = ConnectivityMessage =>
         lastResponse.kind = "network" \/ lastResponse.json = NotJson

\* a step in which the client issues an authenticated request
RequestStep == nrequests' = nrequests + 1

\* C15: every authenticated request reads the token at call time. A request
\* carries 'Authorization: Bearer t', t being the token in memory at the moment
\* the request is issued, and no Authorization header when there is no token.
C15_TokenReadAtCallTime ==
  [][RequestStep =>
       \A headers \in {lastRequest'.headers} :
         IF authToken' = Null
         THEN "Authorization" \notin DOMAIN headers
         ELSE /\ "Authorization" \in DOMAIN headers
              /\ headers["Authorization"] = "Bearer " \o authToken'.text]_vars

\* after a restore with the token t0 and a login that returned t2, a request
\* carries t2
C15_Witness ==
  /\ restore = "verified"
  /\ authToken = Str("t2")
  /\ lastRequest = [name |-> "getConversation", headers |-> GetAuthHeaders(Str("t2"))]
  /\ "Authorization" \in DOMAIN lastRequest.headers

\* C16: a successful login or register installs the session. When the call
\* resolves, the persisted token and the token in memory are the access_token
\* the backend returned, and the user is the user it returned.
C16_SuccessInstallsSession ==
  [][(SettleStep /\ authResult'.kind = "resolved") =>
       /\ lastResponse'.ok
       /\ authResult'.value = lastResponse'.json
       /\ persisted' = Prop(lastResponse'.json, "access_token")
       /\ authToken' = Prop(lastResponse'.json, "access_token")
       /\ user' = Prop(lastResponse'.json, "user")]_vars

\* a login or register resolved with the token t2 after the token t0 had been restored
C16_Witness ==
  /\ restore = "verified"
  /\ authResult = Resolved(Obj([access_token |-> Str("t2"), user |-> Str("u1")]))
  /\ Session = [persisted |-> Str("t2"), authToken |-> Str("t2"), user |-> Str("u1")]

\* C17: logout is synchronous and local. When logout returns, the persisted
\* token is removed, the token in memory and the user are null, and no request
\* has been issued or is left in flight by it.
C17_LogoutLocal ==
  [][Logout =>
       /\ persisted' = Null
       /\ authToken' = Null
       /\ user' = Null
       /\ UNCHANGED <<lastRequest, nrequests, restore, submitting>>]_vars

\* the user of a verified session has logged out; the only request issued is
\* the verification
C17_Witness ==
  /\ restore = "verified"
  /\ Session = [persisted |-> Null, authToken |-> Null, user |-> Null]
  /\ nrequests = 1
  /\ lastRequest.name = "getCurrentUser"

\* the mount effect has not run, or the verification has not settled
RestoreUnsettled == restore \in {"mounting", "pending"}

\* C18: the session is unknown until restore resolves. loading is true exactly
\* as long as the mount effect has not run or its verification call has not
\* settled, and in every execution it eventually becomes false.
C18_LoadingUntilRestored ==
  /\ [](authLoading <=> RestoreUnsettled)
  /\ <>(~authLoading)

\* the verification failed, and loading has ended
C18_Witness ==
  /\ restore = "discarded"
  /\ ~authLoading
  /\ nrequests = 1

\* C27: session consistency under interleaving. However the verification of
\* the persisted token interleaves with login, register and logout, a user is
\* present only with a token: when user is not null, the token in memory and
\* the persisted token are not null.
C27_UserOnlyWithToken ==
  user # Null => authToken # Null /\ persisted # Null

(***************************************************************************)
(* Properties of the attachment.                                           *)
(***************************************************************************)
NoAttachment == pdfData = Null /\ pdfFilename = Null

\* sendMessage starts a turn
SendStarts == SendMessage /\ ~SendRejected

\* a step after which no attachment is to be staged: a send that starts a
\* turn, a completed select or create, or removePdf
ClearingStep ==
  \/ SendStarts
  \/ CreateResolved
  \/ \E fullConv \in GetResponses(1) : SelectResolved(1, fullConv)
  \/ RemovePdf

\* the send of the i-th open call fails, and nothing was staged since it began
FailedSend(i) == RejectingStep /\ StepOf(i) /\ ~Superseded(i) /\ NoAttachment

\* only the first half of C19: the attachment is cleared by a send, a switch, a
\* create and a removal
ClearedByClearingSteps == [][ClearingStep => NoAttachment']_vars

\* C19: the attachment is cleared on send, switch, create and removal, and on
\* a send only when the send is successful: after a send that failed, the
\* attachment sent with it is staged.
C19_AttachmentCleared ==
  [][/\ ClearingStep => NoAttachment'
     /\ \A i \in 1..Len(streams) :
          FailedSend(i) =>
            /\ pdfData' = streams[i].pdfData
            /\ pdfFilename' = streams[i].pdfFilename]_vars

\* the staged attachment is absent, or the payload and the name of one file
CompletePair ==
  \/ NoAttachment
  \/ /\ pdfData.kind = "string"
     /\ pdfFilename.kind = "string"
     /\ pdfData = Prop(UploadResult(pdfFilename.text), "base64")

\* C20: at most one attachment, replaced on restage. The staged attachment is
\* always absent or one complete pair; a successful upload stages the uploaded
\* file in place of whatever was staged; and the attachment sent with a turn is
\* the one staged at the moment of the send.
C20_OneAttachment ==
  /\ []CompletePair
  /\ [][/\ \A f \in Files :
             UploadResolved(UploadResult(f)) =>
               /\ pdfData' = Str("base64:" \o f)
               /\ pdfFilename' = Str(f)
        /\ SendStarts =>
             /\ streams'[Len(streams')].pdfData = pdfData
             /\ streams'[Len(streams')].pdfFilename = pdfFilename]_vars

\* a second turn is in flight that was sent with B.PDF, after a first turn
\* that was sent with a.pdf
C20_Witness ==
  /\ Len(streams) = 1
  /\ streams[1].pdfFilename = Str("B.PDF")
  /\ streams[1].pdfData = Str("base64:B.PDF")
  /\ streams[1].before # <<>>
  /\ streams[1].before[1].content = "hi\n\nAttached: a.pdf"
  /\ NoAttachment

(***************************************************************************)
(* Properties of the turn's end and of the title event.                    *)
(***************************************************************************)
\* a step in which the stream call of a turn returns, a stage 3 event of the
\* turn having been handled before the step or in it
SettlingStep == ResolvingStep /\ (stage3Result # Null \/ stage3Result' # Null)

\* C21: after settlement the machine is idle with cleared buffers. When the
\* stream call of a turn returns after its stage 3 event, the stage buffers
\* stage1Results, stage2Results, stage3Result and metadata are null and
\* currentStage is null.
C21_SettledBuffersCleared ==
  [][SettlingStep =>
       /\ stage1Results' = Null
       /\ stage2Results' = Null
       /\ stage3Result' = Null
       /\ metadata' = Null
       /\ currentStage' = Null]_vars

\* a step in which the i-th open stream call reads a title frame
TitleStep(i) == StreamRead(i, EncodeFrame(TitleText))

\* C22: the title event does not alter the stage state. Handling a title
\* frame, at any point of a turn, leaves stage1Results, stage2Results,
\* stage3Result, metadata and currentStage as they were: a step that changes
\* one of them is not the handling of a title frame.
C22_TitleKeepsStageState ==
  [][UNCHANGED stageVars \/ \A i \in 1..Len(streams) : ~TitleStep(i)]_vars

\* a title event was handled in the middle of a turn, after its stage 1 event:
\* the conversation has the title of the frame and stage 2 is awaited
C22_Witness ==
  /\ Len(streams) = 1
  /\ streams[1].reads = 2
  /\ messages = <<[role |-> "user", content |-> "hi"]>>
  /\ currentConversation.title = Str("t")
  /\ stage1Results = Str("a")
  /\ currentStage = Num(2)

(***************************************************************************)
(* Properties of the selection of a conversation.                          *)
(***************************************************************************)
\* a step in which the last fetch in flight resolves, the fetch of the
\* conversation selected last having resolved in this step or before it
LastFetchResolves ==
  /\ pendingGet # {}
  /\ pendingGet' = {}
  /\ \E c \in pendingGet : \E fullConv \in GetResponses(c) : SelectResolved(c, fullConv)

\* C28: the last selection wins. When the user has selected a conversation
\* and then another before the first one's fetch resolved, then once both
\* fetches have resolved, in either order, currentConversation is the one
\* selected last.
C28_LastSelectionWins ==
  [][LastFetchResolves =>
       /\ currentConversation' # Null
       /\ currentConversation'.id = selected]_vars

\* C29: a title event never changes which conversation is current. After the
\* title frame of a turn is handled, currentConversation has the id it had
\* before, also when another conversation was selected or created since the
\* turn began.
C29_TitleKeepsCurrent ==
  [][\A i \in 1..Len(streams) :
       TitleStep(i) =>
         /\ currentConversation' # Null
         /\ currentConversation'.id = currentConversation.id]_vars

(***************************************************************************)
(* Properties of a pending upload.                                         *)
(***************************************************************************)
\* a step in which the pending upload completes
UploadCompletes == \E f \in Files : UploadResolved(UploadResult(f))

\* a message was sent while the upload was pending: an upload begins only
\* while no turn is in flight, so that a turn in flight has begun after it
SentSinceUpload == pendingUpload # Null /\ loading

\* C30: an upload is staged only where it was started. When a message was
\* sent while an upload was pending, the completion of that upload stages no
\* attachment: pdfData and pdfFilename stay null.
C30_StagedWhereStarted ==
  [][(SentSinceUpload /\ UploadCompletes) => NoAttachment']_vars

(***************************************************************************)
(* Properties of the progress of a turn.                                   *)
(***************************************************************************)
\* C32: no progress indicator without a turn in flight. Whenever loading is
\* false, currentStage is null: when the stream call of a turn has returned
\* before a stage 3 event, currentStage does not stay at 1, 2 or 3.
C32_NoStageWithoutTurn ==
  ~loading => currentStage = Null

\* C33: sending is eventually re-enabled. After every send that passes the
\* guard, provided the transport delivers the end of the stream or fails,
\* loading becomes false again, however the turn ends: by the sentinel, a
\* completion frame, the end of the stream, an error frame or an HTTP failure.
C33_SendingReenabled == loading ~> ~loading

\* a turn was ended by an error frame after its stage 1 event, and loading is
\* false again
C33_Witness ==
  /\ turns = 1
  /\ streams = <<>>
  /\ lastSend = "rejected"
  /\ lastAlert = "Error: busy"
  /\ stage1Results = Str("a")
  /\ ~loading
====
